---- MODULE Spec2Model ----
(***************************************************************************)
(* Model of sim_pkg/simulator.py: the main tick loop of the swarm          *)
(* simulation server (loop) with its pacing and its shutdown flag, the     *)
(* command dispatcher (get_data), the message relay (update_msg_buffer),   *)
(* the integrator (integrate_world, check_collision,                       *)
(* BotDiffDrive.integrate), the frame decoder (msg_decode) and the         *)
(* admission loop (initialize_robots).                                     *)
(*                                                                         *)
(* Units.  Time is counted in units of 0.1 ms, so sim_time_curr starts at  *)
(* 1 (0.0001 s) and a delay of m milliseconds adds 10*m.  Positions live   *)
(* on an integer grid, headings are counted in quarter turns (HalfTurn     *)
(* units make pi), and a wheel velocity of 1 moves a robot by one grid     *)
(* unit per tick per wheel (radius_of_wheel*T_sim/2 = 1) and turns it by   *)
(* one quarter turn per tick (radius_of_wheel*T_sim/(2*                    *)
(* distance_between_wheel) = 1).  Distances are compared by their squares. *)
(* A payload is the first len bytes of the byte stream named by tag.       *)
(* Wall time is counted in the same units as simulated time.               *)
(***************************************************************************)
EXTENDS Integers, Sequences, FiniteSets, TLC

\* ------------------------------------------------------------ configuration
num_robots == 3
T_sim == 10
SimTimeStart == 1
MSG_BUFFER_SIZE == 1792
msg_buffer_size == 2
comm_range == 3
robot_diameter == 2
robot_radius == 1
arena_width == 8
arena_height == 4
max_motor_speed == 2
HalfTurn == 2
real_time_factor == 1
Eps == 1

\* ------------------------------------------------------------------ bounds
\* MaxTicks and MaxRelayTicks iterations of the main loop are explored.
MaxTicks == 2
MaxRelayTicks == 1
MaxList == 1
MaxDelayMillis == 2
\* Frames of at most MaxFields fields: integers up to MaxInt, texts of at most
\* MaxText characters.
MaxFields == 2
MaxInt == 3
MaxText == 2
\* Work of k * T_real / 2 wall-time units per iteration, k up to MaxWork.
MaxWork == 4
\* Connections the admission loop accepts at most.
MaxAccepts == 5

Robots == 0 .. (num_robots - 1)
Conns == Robots
server_socket == num_robots
Socks == Conns \cup {server_socket}
Refs == 0 .. num_robots
PassRates == {50, 100}
Uniform == {0, 99}
Payloads == {[tag |-> "p", len |-> 1], [tag |-> "q", len |-> MSG_BUFFER_SIZE + 1]}
DelayMillis == 0 .. MaxDelayMillis
Leds == {<<0, 0, 0>>, <<1, 2, 3>>}
WheelPows == {<<0, 0>>, <<100, 100>>, <<50, 50>>, <<0, 50>>}
ClearBools == {"True", "False"}

Min(a, b) == IF a < b THEN a ELSE b
Max(a, b) == IF a > b THEN a ELSE b
RangeSeq(a, b) == [k \in 1 .. Max(b - a, 0) |-> a + k - 1]

VARIABLES sim_time_curr, clk, usr_led, pos_x, pos_y, pos_angle, wheel_vel_arr,
          msg_buffer, heap, packet_pass_rate, inbox, pc, rlist, last,
          wire, data_arr, wall_time, real_time_now_start, actual_rtf, adm, kill_now

vars == <<sim_time_curr, clk, usr_led, pos_x, pos_y, pos_angle, wheel_vel_arr,
          msg_buffer, heap, packet_pass_rate, inbox, pc, rlist, last,
          wire, data_arr, wall_time, real_time_now_start, actual_rtf, adm, kill_now>>

\* wire is a frame on its way to the server and data_arr what msg_decode made
\* of it; wall_time is time.time(); adm holds the locals of initialize_robots.
codec_vars == <<wire, data_arr>>
pace_vars == <<wall_time, real_time_now_start, actual_rtf>>

robot_vars == <<clk, usr_led, pos_x, pos_y, pos_angle, wheel_vel_arr>>

\* ------------------------------------------------------------------ frames
\* A decoded request: msg[1] is the robot id, msg[2] the opcode, msg[3..] the
\* arguments; payload, clear and pow are what the connection sends when the
\* handler reads it a second time, and follow tells whether it sends anything
\* then.
Frame(rid, op, millis, led, payload, clear, pow) ==
    [rid |-> rid, op |-> op, millis |-> millis, led |-> led,
     payload |-> payload, clear |-> clear, pow |-> pow, follow |-> TRUE]

Silent(f) == [f EXCEPT !.follow = FALSE]

NoPayload == [tag |-> "p", len |-> 1]
NoFrame == Frame(0, 0, 0, <<0, 0, 0>>, NoPayload, "False", <<0, 0>>)
Ids == 0 .. num_robots

DelayFrames ==
    {Frame(r, 3, m, <<0, 0, 0>>, NoPayload, "False", <<0, 0>>) : r \in Ids, m \in DelayMillis}
LedFrames ==
    {Frame(r, 2, 0, l, NoPayload, "False", <<0, 0>>) : r \in Ids, l \in Leds}
SendFrames ==
    {Frame(r, 4, 0, <<0, 0, 0>>, p, "False", <<0, 0>>) : r \in Robots, p \in Payloads}
RecvFrames ==
    {Frame(r, 5, 0, <<0, 0, 0>>, NoPayload, cb, <<0, 0>>) : r \in Robots, cb \in ClearBools}
ClockFrames ==
    {Frame(r, 6, 0, <<0, 0, 0>>, NoPayload, "False", <<0, 0>>) : r \in Ids}
WheelFrames ==
    {Frame(r, 7, 0, <<0, 0, 0>>, NoPayload, "False", w) : r \in Ids, w \in WheelPows}
PoseFrames ==
    {Frame(r, 8, 0, <<0, 0, 0>>, NoPayload, "False", <<0, 0>>) : r \in Ids}

\* ------------------------------------------------------------------- codec
\* A packet is a sequence of characters.  A client writes every field as the
\* marker 0b followed by bin(n)[2:] for an integer n or by the raw text.
Chars == {"0", "1", "b", "a"}
Texts == UNION {[1 .. n -> Chars] : n \in 0 .. MaxText}

IntField(n) == [kind |-> "int", num |-> n, text |-> <<>>]
StrField(t) == [kind |-> "str", num |-> 0, text |-> t]
Raised == [kind |-> "raised", num |-> 0, text |-> <<>>]
Fields == {IntField(n) : n \in 0 .. MaxInt} \cup {StrField(t) : t \in Texts}
FieldSeqs == UNION {[1 .. n -> Fields] : n \in 1 .. MaxFields}

RECURSIVE Bin(_)
Bin(n) ==
    IF n < 2 THEN <<IF n = 1 THEN "1" ELSE "0">>
    ELSE Append(Bin(n \div 2), IF n % 2 = 1 THEN "1" ELSE "0")

EncodeField(f) == <<"0", "b">> \o (IF f.kind = "int" THEN Bin(f.num) ELSE f.text)

RECURSIVE Encode(_)
Encode(fs) == IF fs = <<>> THEN <<>> ELSE EncodeField(Head(fs)) \o Encode(Tail(fs))

\* [_.start() for _ in re.finditer('0b', packet)], as 1-based positions.
RECURSIVE Starts(_, _)
Starts(packet, k) ==
    IF k >= Len(packet) THEN <<>>
    ELSE IF packet[k] = "0" /\ packet[k + 1] = "b"
         THEN <<k>> \o Starts(packet, k + 2)
         ELSE Starts(packet, k + 1)

\* int(num, 2) of the digits after the marker; raises on any other character.
IsBinary(ds) == \A k \in 1 .. Len(ds) : ds[k] \in {"0", "1"}

RECURSIVE BinValue(_)
BinValue(ds) ==
    IF ds = <<>> THEN 0
    ELSE 2 * BinValue(SubSeq(ds, 1, Len(ds) - 1)) + (IF ds[Len(ds)] = "1" THEN 1 ELSE 0)

\* One pass of the loop body: num[2] raises IndexError on a bare marker.
DecodeField(num) ==
    IF Len(num) < 3 THEN Raised
    ELSE IF num[3] \in {"0", "1"}
         THEN IF IsBinary(SubSeq(num, 3, Len(num)))
              THEN IntField(BinValue(SubSeq(num, 3, Len(num))))
              ELSE Raised
         ELSE StrField(SubSeq(num, 3, Len(num)))

msg_decode(packet) ==
    LET result == Starts(packet, 1) \o <<Len(packet) + 1>>
        arr == [i \in 1 .. (Len(result) - 1) |->
                   DecodeField(SubSeq(packet, result[i], result[i + 1] - 1))]
        raised == \E i \in 1 .. Len(arr) : arr[i] = Raised
    IN  [decoded |-> TRUE, raised |-> raised, vals |-> IF raised THEN <<>> ELSE arr]

NoWire == [fields |-> <<>>, packet |-> <<>>]
NotDecoded == [decoded |-> FALSE, raised |-> FALSE, vals |-> <<>>]

\* --------------------------------------------------------- message buffers
\* msg_buffer[i] is a reference to a list object and heap[r] is the content of
\* list object r: `[[]] * config.num_robots` makes every slot refer to the
\* same list, append changes the object, an assignment to a slot rebinds it.
Normalize(mb, hp) ==
    LET rep(i) == CHOOSE j \in Robots : mb[j] = mb[i] /\ \A k \in Robots : mb[k] = mb[i] => j <= k
    IN  [mb |-> [i \in Robots |-> rep(i)],
         hp |-> [r \in Refs |-> IF r \in Robots /\ rep(r) = r THEN hp[mb[r]] ELSE <<>>]]

AssignInPlace(mb, hp, i, val) == [mb |-> mb, hp |-> [hp EXCEPT ![mb[i]] = val]]

Assign(mb, hp, i, val) ==
    LET r == CHOOSE q \in Refs : \A j \in Robots \ {i} : mb[j] # q
    IN  Normalize([mb EXCEPT ![i] = r], [hp EXCEPT ![r] = val])

LastN(lst, k) == IF k = 0 THEN lst ELSE SubSeq(lst, Len(lst) - k + 1, Len(lst))

TruncateShort(msg) ==
    IF msg.len > MSG_BUFFER_SIZE THEN [msg EXCEPT !.len = MSG_BUFFER_SIZE - 1] ELSE msg

Truncate(msg) ==
    IF msg.len > MSG_BUFFER_SIZE THEN [msg EXCEPT !.len = MSG_BUFFER_SIZE] ELSE msg

Dist2(x1, y1, x2, y2) == (x1 - x2) * (x1 - x2) + (y1 - y2) * (y1 - y2)

range_of_val(robot_id, num_of_robot) ==
    IF robot_id = num_of_robot
    THEN RangeSeq(0, robot_id)
    ELSE RangeSeq(0, robot_id - 1) \o RangeSeq(robot_id, num_of_robot)

InCommRange(robot_id, i) ==
    Dist2(pos_x[robot_id], pos_y[robot_id], pos_x[i], pos_y[i]) < comm_range * comm_range

\* msg_buffer[i].append(msg), then the trim to the last msg_buffer_size entries,
\* which rebinds slot i to a new list.
RelayStore(st, i, m, hp1) ==
    IF Len(hp1[st.mb[i]]) > msg_buffer_size
    THEN LET n == Assign(st.mb, hp1, i, LastN(hp1[st.mb[i]], msg_buffer_size))
         IN  [mb |-> n.mb, hp |-> n.hp, msg |-> m]
    ELSE [mb |-> st.mb, hp |-> hp1, msg |-> m]

RelayOne(st, i, robot_id, random_bool) ==
    IF InCommRange(robot_id, i) /\ random_bool[i]
    THEN CHOOSE r \in {RelayStore(st, i, m, hp1) :
                         m \in {Truncate(st.msg)},
                         hp1 \in {[st.hp EXCEPT ![st.mb[i]] = Append(@, Truncate(st.msg))]}} : TRUE
    ELSE st

RECURSIVE RelayLoop(_, _, _, _)
RelayLoop(st, todo, robot_id, random_bool) ==
    IF todo = <<>> THEN st
    ELSE CHOOSE r \in {RelayLoop(v, Tail(todo), robot_id, random_bool) :
                         v \in {RelayOne(st, Head(todo), robot_id, random_bool)}} : TRUE

update_msg_buffer(mb, hp, msg, robot_id, random_bool) ==
    RelayLoop([mb |-> mb, hp |-> hp, msg |-> msg],
              range_of_val(robot_id, num_robots), robot_id, random_bool)

Buffer(i) == heap[msg_buffer[i]]

\* --------------------------------------------------------------- kinematics
Cos(a) == LET q == a % (2 * HalfTurn) IN IF q = 0 THEN 1 ELSE IF q = HalfTurn THEN -1 ELSE 0
Sin(a) == Cos(a - (HalfTurn \div 2))

\* pos = [angle, x, y]: the heading row of state_matrix is (-u_left + u_right),
\* the x and y rows use the heading before the update.
dynamics(st, i, u_left, u_right) ==
    [angle |-> st.angle[i] + (u_right - u_left),
     x |-> st.x[i] + Cos(st.angle[i]) * (u_left + u_right),
     y |-> st.y[i] + Sin(st.angle[i]) * (u_left + u_right)]

integrate(st, i, u_left, u_right) ==
    LET pos == dynamics(st, i, u_left, u_right)
    IN  [pos EXCEPT !.angle = ((pos.angle + HalfTurn) % (2 * HalfTurn)) - HalfTurn]

\* TRUE when the proposed position is farther than robot_diameter from every
\* other robot's stored position.
check_collision(pos, st, i) ==
    \A j \in Robots \ {i} :
        ~(Dist2(st.x[j], st.y[j], pos.x, pos.y) <= robot_diameter * robot_diameter)

XMin == -(arena_width \div 2) + robot_radius
XMax == (arena_width \div 2) - robot_radius
YMin == -(arena_height \div 2) + robot_radius
YMax == (arena_height \div 2) - robot_radius

ClipXUpper(x) == Min(x, XMax)

ClipX(x) == Min(Max(x, XMin), XMax)
ClipY(y) == Min(Max(y, YMin), YMax)

ClkReset(c, sim_time) == sim_time

ClkKeep(c, sim_time) == c

ClkFloor(c, sim_time) == Max(c, sim_time)

IntegrateOne(st, i, wheel_vel, sim_time) ==
    LET pos == integrate(st, i, wheel_vel[i][1], wheel_vel[i][2])
        free == check_collision(pos, st, i)
        x1 == IF free THEN pos.x ELSE st.x[i]
        y1 == IF free THEN pos.y ELSE st.y[i]
    IN  [angle |-> [st.angle EXCEPT ![i] = pos.angle],
         x |-> [st.x EXCEPT ![i] = ClipX(x1)],
         y |-> [st.y EXCEPT ![i] = ClipY(y1)],
         clk |-> [st.clk EXCEPT ![i] = ClkFloor(@, sim_time)]]

RECURSIVE IntegrateLoop(_, _, _, _)
IntegrateLoop(st, i, wheel_vel, sim_time) ==
    IF i >= num_robots THEN st
    ELSE CHOOSE r \in {IntegrateLoop(v, i + 1, wheel_vel, sim_time) :
                         v \in {IntegrateOne(st, i, wheel_vel, sim_time)}} : TRUE

integrate_world(st, wheel_vel, sim_time) == IntegrateLoop(st, 0, wheel_vel, sim_time)

\* ------------------------------------------------------------ the tick loop
fd_to_id_map == [c \in Conns |-> c]

GatedLate(c) == clk[fd_to_id_map[c]] > sim_time_curr + T_sim

GatedCached(c) == clk[fd_to_id_map[c]] > SimTimeStart

Gated(c) == clk[fd_to_id_map[c]] > sim_time_curr

Ack == <<"ack", 0>>

\* Data arrives on connection c: the socket turns readable.  What the bytes
\* are is chosen when the server reads them.
Running(ticks) == sim_time_curr < SimTimeStart + ticks * T_sim

Arrive(c, ticks) ==
    /\ pc = "select"
    /\ Running(ticks)
    /\ ~inbox[c]
    /\ inbox' = [inbox EXCEPT ![c] = TRUE]
    /\ UNCHANGED <<sim_time_curr, robot_vars, msg_buffer, heap, packet_pass_rate, pc, rlist, last>>
    /\ UNCHANGED <<codec_vars, pace_vars, adm, kill_now>>

\* select.select: the readable sockets, in the order of
\* [server_socket] + open_client_sockets.
ReadySeq(ready) ==
    LET F[k \in 0 .. num_robots] ==
            IF k = 0 THEN IF ready[server_socket] THEN <<server_socket>> ELSE <<>>
            ELSE IF ready[k - 1] THEN Append(F[k - 1], k - 1) ELSE F[k - 1]
    IN  F[num_robots]

\* The test of `while not killer.kill_now`.
KillIgnored == FALSE

KillSeen == kill_now

\* The top of an iteration: `while not killer.kill_now`, then select.
Select(ticks) ==
    /\ pc = "select"
    /\ ~KillSeen
    /\ Running(ticks)
    /\ rlist' = ReadySeq(inbox)
    /\ pc' = "io"
    /\ last' = [conn |-> -1, frame |-> NoFrame, sent |-> <<>>, crashed |-> FALSE]
    /\ UNCHANGED <<sim_time_curr, robot_vars, msg_buffer, heap, packet_pass_rate, inbox>>
    /\ UNCHANGED <<codec_vars, pace_vars, adm, kill_now>>

\* An exception leaves loop(): main() catches BaseException and returns.
Crash(c, f, sent) ==
    /\ pc' = "crashed"
    /\ last' = [conn |-> c, frame |-> f, sent |-> sent, crashed |-> TRUE]
    /\ UNCHANGED <<robot_vars, msg_buffer, heap>>

Reply(c, f, sent) ==
    /\ pc' = pc
    /\ last' = [conn |-> c, frame |-> f, sent |-> sent, crashed |-> FALSE]

\* current_socket.recv on a blocking socket whose peer sends nothing more:
\* the handler never returns.
Block(c, f, sent) ==
    /\ pc' = "blocked"
    /\ last' = [conn |-> c, frame |-> f, sent |-> sent, crashed |-> FALSE]
    /\ UNCHANGED <<robot_vars, msg_buffer, heap>>

\* The commands whose handler reads the connection a second time, unless an
\* exception comes first (msg_buffer[msg[1]] of an unknown id in op 5).
Blocks(f) ==
    /\ ~f.follow
    /\ f.op \in {4, 5, 6, 7, 8}
    /\ ~(f.op = 5 /\ f.rid \notin Robots)

Stored(arr) == [j \in 1 .. Len(arr) |-> <<"data", arr[j]>>]

get_data(c, f, random_bool) ==
  IF Blocks(f)
  THEN Block(c, f, IF f.op = 5 THEN <<<<"size", Len(heap[msg_buffer[f.rid]])>>>> ELSE <<Ack>>)
  ELSE
    CASE f.op = 3 ->
            IF f.rid \in Robots
            THEN /\ clk' = [clk EXCEPT ![f.rid] = @ + 10 * f.millis]
                 /\ Reply(c, f, <<Ack>>)
                 /\ UNCHANGED <<usr_led, pos_x, pos_y, pos_angle, wheel_vel_arr, msg_buffer, heap>>
            ELSE Crash(c, f, <<>>)
      [] f.op = 2 ->
            /\ usr_led' = IF f.rid \in Robots THEN [usr_led EXCEPT ![f.rid] = f.led] ELSE usr_led
            /\ Reply(c, f, <<Ack>>)
            /\ UNCHANGED <<clk, pos_x, pos_y, pos_angle, wheel_vel_arr, msg_buffer, heap>>
      [] f.op = 4 ->
            IF f.rid \in Robots
            THEN \E st \in {update_msg_buffer(msg_buffer, heap, f.payload, f.rid, random_bool)} :
                     /\ msg_buffer' = st.mb
                     /\ heap' = st.hp
                     /\ Reply(c, f, <<Ack, Ack>>)
                     /\ UNCHANGED robot_vars
            ELSE Crash(c, f, <<Ack, Ack>>)
      [] f.op = 5 ->
            IF f.rid \in Robots
            THEN LET arr == heap[msg_buffer[f.rid]]
                     st == IF f.clear = "True"
                           THEN Assign(msg_buffer, heap, f.rid, <<>>)
                           ELSE [mb |-> msg_buffer, hp |-> heap]
                 IN  /\ msg_buffer' = st.mb
                     /\ heap' = st.hp
                     /\ Reply(c, f, <<<<"size", Len(arr)>>, Ack>> \o Stored(arr))
                     /\ UNCHANGED robot_vars
            ELSE Crash(c, f, <<>>)
      [] f.op = 6 ->
            IF f.rid \in Robots
            THEN /\ Reply(c, f, <<Ack, <<"clock", clk[f.rid]>>>>)
                 /\ UNCHANGED <<robot_vars, msg_buffer, heap>>
            ELSE Crash(c, f, <<Ack>>)
      [] f.op = 7 ->
            IF f.rid \in Robots
            THEN /\ wheel_vel_arr' = [wheel_vel_arr EXCEPT ![f.rid] =
                                         <<(max_motor_speed * f.pow[1]) \div 100,
                                           (max_motor_speed * f.pow[2]) \div 100>>]
                 /\ Reply(c, f, <<Ack, Ack>>)
                 /\ UNCHANGED <<clk, usr_led, pos_x, pos_y, pos_angle, msg_buffer, heap>>
            ELSE Crash(c, f, <<Ack, Ack>>)
      [] f.op = 8 ->
            IF f.rid \in Robots
            THEN /\ Reply(c, f, <<Ack, <<"pose", <<pos_x[f.rid], pos_y[f.rid], pos_angle[f.rid]>>>>>>)
                 /\ UNCHANGED <<robot_vars, msg_buffer, heap>>
            ELSE Crash(c, f, <<Ack>>)

MaxClk == SimTimeStart + MaxTicks * T_sim

\* The requests the model lets a connection make in the current state: a delay
\* keeps the clock below MaxClk, a send finds every list no longer than MaxList.
Allowed(f) ==
    /\ (f.op = 3 /\ f.rid \in Robots) => clk[f.rid] + 10 * f.millis <= MaxClk
    /\ f.op = 4 => \A i \in Robots : Len(Buffer(i)) <= MaxList

\* random_bool = np.random.uniform() < config.packet_pass_rate, drawn once for
\* each robot the sender's loop finds in range: pass[i] is robot i's random_bool.
RandomBools == {u < packet_pass_rate : u \in Uniform}

Passes(f) ==
    IF f.op = 4 /\ f.rid \in Robots
    THEN {p \in [Robots -> RandomBools] : \A i \in Robots : ~InCommRange(f.rid, i) => p[i]}
    ELSE {[i \in Robots |-> TRUE]}

\* One pass of the body of `for current_socket in rlist`.
HandleSocket(F) ==
    /\ pc = "io"
    /\ rlist # <<>>
    /\ rlist' = Tail(rlist)
    /\ LET c == Head(rlist)
       IN  IF c \in DOMAIN fd_to_id_map /\ Gated(c)
           THEN UNCHANGED <<robot_vars, msg_buffer, heap, inbox, pc, last>>
           ELSE IF c = server_socket
           THEN \* recv on the listening socket raises OSError (ENOTCONN)
                /\ Crash(c, NoFrame, <<>>)
                /\ UNCHANGED inbox
           ELSE /\ inbox' = [inbox EXCEPT ![c] = FALSE]
                /\ \E f \in F :
                      /\ Allowed(f)
                      /\ \E pass \in Passes(f) : get_data(c, f, pass)
    /\ UNCHANGED <<sim_time_curr, packet_pass_rate>>
    /\ UNCHANGED <<codec_vars, pace_vars, adm, kill_now>>

T_real == T_sim \div real_time_factor
WorkTimes == {k * (T_real \div 2) : k \in 0 .. MaxWork}

\* Lines 583-603: elapsed_time_diff is measured from real_time_now_start, which
\* the previous iteration set before it slept; work is the wall time this
\* iteration has taken when it reaches line 583.
Pace(work) ==
    LET real_time_now_end == wall_time + work
        elapsed_time_diff == real_time_now_end - real_time_now_start
    IN  /\ real_time_now_start' = real_time_now_end
        /\ IF elapsed_time_diff < T_real
           THEN /\ actual_rtf' = [num |-> T_sim, den |-> T_real]
                /\ wall_time' = real_time_now_end + (T_real - elapsed_time_diff)
           ELSE /\ actual_rtf' = [num |-> T_sim, den |-> elapsed_time_diff]
                /\ wall_time' = real_time_now_end

\* The rest of the iteration: sim_time_curr += T_sim, integrate_world, pacing.
IntegrateWorld(W) ==
    /\ pc = "io"
    /\ rlist = <<>>
    /\ \E work \in W : Pace(work)
    /\ sim_time_curr' = sim_time_curr + T_sim
    /\ \E st \in {integrate_world([angle |-> pos_angle, x |-> pos_x, y |-> pos_y, clk |-> clk],
                                  wheel_vel_arr, sim_time_curr + T_sim)} :
           /\ pos_angle' = st.angle
           /\ pos_x' = st.x
           /\ pos_y' = st.y
           /\ clk' = st.clk
    /\ pc' = "select"
    /\ UNCHANGED <<usr_led, wheel_vel_arr, msg_buffer, heap, packet_pass_rate, inbox, rlist, last>>
    /\ UNCHANGED <<codec_vars, adm, kill_now>>

\* SIGINT or SIGTERM: exit_gracefully sets the flag, whatever the loop is doing.
Signal ==
    /\ pc \in {"select", "io"}
    /\ ~kill_now
    /\ kill_now' = TRUE
    /\ UNCHANGED <<sim_time_curr, robot_vars, msg_buffer, heap, packet_pass_rate, inbox, pc, rlist, last>>
    /\ UNCHANGED <<codec_vars, pace_vars, adm>>

\* `while not killer.kill_now` fails: server_socket.close(), loop() returns.
Exit ==
    /\ pc = "select"
    /\ KillSeen
    /\ pc' = "closed"
    /\ UNCHANGED <<sim_time_curr, robot_vars, msg_buffer, heap, packet_pass_rate, inbox, rlist, last>>
    /\ UNCHANGED <<codec_vars, pace_vars, adm, kill_now>>

\* --------------------------------------------------------------- admission
\* The locals of initialize_robots.  Sockets are named by the order in which
\* accept returned them, from 0; fileno(s) is positive.
fileno(s) == s + 1

AdmSockets == 0 .. (MaxAccepts - 1)
NoKey == -1

\* What initialize_robots returns when num_robots robots joined one after the
\* other and no visualizer is used.  A map holds NoKey where it has no entry.
Admitted ==
    [use_visualizer |-> FALSE, accepted |-> num_robots, num_of_robot |-> num_robots,
     fd_to_id_map |-> [s \in AdmSockets |-> IF s \in Conns THEN fd_to_id_map[s] ELSE NoKey],
     id_to_socket_map |-> [i \in Ids |-> IF i \in Robots THEN i ELSE NoKey],
     vis_fd |-> -1, open_client_sockets |-> [k \in 1 .. num_robots |-> k - 1]]

\* The state at the top of `while flag`: robot_state is [BotDiffDrive(id_=0)] * n.
NotAdmitted(uv) ==
    [use_visualizer |-> uv, accepted |-> 0, num_of_robot |-> 0,
     fd_to_id_map |-> [s \in AdmSockets |-> NoKey],
     id_to_socket_map |-> [i \in Ids |-> NoKey],
     vis_fd |-> -1, open_client_sockets |-> <<>>]

\* What the first recv on an accepted connection returns: 7, 5, another number,
\* no bytes, bytes that int(msg, 2) rejects, or nothing at all.
Hellos == {"join", "vis", "other", "empty", "garbage", "silent"}
InitClks == {0, 5}
InitSpots == {<<0, 0>>, <<1, 0>>}

\* Lines 324-337: robot i is put beside every robot it is found too close to.
RECURSIVE Nudge(_, _, _)
Nudge(p, st, js) ==
    IF js = <<>> THEN p
    ELSE LET j == Head(js)
             q == IF Dist2(st.x[j], st.y[j], p.x, p.y) <= robot_diameter * robot_diameter
                  THEN [x |-> st.x[j] + robot_diameter + Eps, y |-> st.y[j] + robot_diameter + Eps]
                  ELSE p
         IN  CHOOSE r \in {Nudge(v, st, Tail(js)) : v \in {q}} : TRUE

RECURSIVE SeparateLoop(_, _, _)
SeparateLoop(st, i, n) ==
    IF i >= n THEN st
    ELSE LET p == Nudge([x |-> st.x[i], y |-> st.y[i]], st, RangeSeq(0, i) \o RangeSeq(i + 1, n))
         IN  CHOOSE r \in {SeparateLoop(v, i + 1, n) :
                              v \in {[x |-> [st.x EXCEPT ![i] = p.x],
                                      y |-> [st.y EXCEPT ![i] = p.y]]}} : TRUE

\* The test at the bottom of the while loop (lines 306-312).
AdmissionDone(a) ==
    IF a.use_visualizer
    THEN a.num_of_robot = num_robots /\ a.vis_fd > 0
    ELSE a.num_of_robot = num_robots

\* One pass of `while flag` in which select returns server_socket: accept, the
\* first recv, the branch on what was received, the test of flag and, when the
\* loop ends, the rest of initialize_robots.
Accept(hello) ==
    /\ pc = "admit"
    /\ adm.accepted < MaxAccepts
    /\ LET new_socket == adm.accepted
           n == adm.num_of_robot
           a0 == [adm EXCEPT !.accepted = @ + 1]
           bound == [a0 EXCEPT !.id_to_socket_map[n] = new_socket,
                               !.fd_to_id_map[new_socket] = n]
           listed(a) == [a EXCEPT !.open_client_sockets = Append(@, new_socket)]
       IN  IF hello = "silent"
           THEN \* new_socket.recv(1024) never returns
                /\ adm' = a0
                /\ pc' = "blocked"
                /\ UNCHANGED <<clk, pos_x, pos_y, pos_angle>>
           ELSE \E c0 \in InitClks, spot \in InitSpots :
                  \E a1 \in {CASE hello = "join" /\ n < num_robots ->
                                    listed([bound EXCEPT !.num_of_robot = n + 1])
                              [] hello = "join" /\ n >= num_robots -> bound
                              [] hello = "vis" -> listed([a0 EXCEPT !.vis_fd = fileno(new_socket)])
                              [] hello \in {"other", "empty"} -> listed(a0)
                              [] hello = "garbage" -> a0} :
                    \E st \in {IF hello = "join" /\ n < num_robots
                                THEN [x |-> [pos_x EXCEPT ![n] = spot[1]],
                                      y |-> [pos_y EXCEPT ![n] = spot[2]],
                                      clk |-> [clk EXCEPT ![n] = c0]]
                                ELSE [x |-> pos_x, y |-> pos_y, clk |-> clk]} :
                      /\ adm' = a1
                      /\ clk' = st.clk
                      /\ pos_angle' = pos_angle
                      /\ IF AdmissionDone(a1)
                         THEN \E sep \in {SeparateLoop(st, 0, a1.num_of_robot)} :
                                 /\ pos_x' = sep.x
                                 /\ pos_y' = sep.y
                                 /\ pc' = "admitted"
                         ELSE /\ pos_x' = st.x
                              /\ pos_y' = st.y
                              /\ pc' = pc
    /\ UNCHANGED <<sim_time_curr, usr_led, wheel_vel_arr, msg_buffer, heap, packet_pass_rate,
                   inbox, rlist, last>>
    /\ UNCHANGED <<codec_vars, pace_vars, kill_now>>

\* ------------------------------------------------------------ initial states
\* The state loop() is in when initialize_robots has admitted num_robots robots.
InitWith(clks, layouts, angles, rates) ==
    /\ sim_time_curr = SimTimeStart
    /\ clk \in [Robots -> clks]
    /\ usr_led = [i \in Robots |-> <<0, 0, 0>>]
    /\ \E l \in layouts : pos_x = l[1] /\ pos_y = l[2]
    /\ pos_angle \in [Robots -> angles]
    /\ wheel_vel_arr = [i \in Robots |-> <<0, 0>>]
    /\ msg_buffer = [i \in Robots |-> 0]
    /\ heap = [r \in Refs |-> <<>>]
    /\ packet_pass_rate \in rates
    /\ inbox = [c \in Socks |-> FALSE]
    /\ pc = "select"
    /\ rlist = <<>>
    /\ last = [conn |-> -1, frame |-> NoFrame, sent |-> <<>>, crashed |-> FALSE]
    /\ wire = NoWire
    /\ data_arr = NotDecoded
    /\ wall_time = 0
    /\ real_time_now_start = 0
    /\ actual_rtf = [num |-> real_time_factor, den |-> 1]
    /\ adm = Admitted
    /\ kill_now = FALSE

Pt(a, b, c) == [i \in Robots |-> IF i = 0 THEN a ELSE IF i = 1 THEN b ELSE c]
\* Robot 0 is within comm_range of robots 1 and 2, which are exactly comm_range
\* apart; no pair is within robot_diameter.
LayoutStar == <<Pt(0, 2, -1), Pt(-1, 1, 1)>>

\* Connections that use the clock and indicator commands; the clocks start
\* unsynchronised (random.uniform(0,1)*0.001 is 0 .. 10 time units).
ClockCmds == DelayFrames \cup LedFrames \cup ClockFrames

Init == InitWith({0, 5}, {LayoutStar}, {0}, {100})

Next ==
    \/ \E c \in Conns : Arrive(c, MaxTicks)
    \/ Select(MaxTicks)
    \/ HandleSocket(ClockCmds)
    \/ IntegrateWorld({0})

Spec == Init /\ [][Next]_vars

\* Connections that use the message relay.
RelayCmds == SendFrames \cup RecvFrames

InitRelay == InitWith({0}, {LayoutStar}, {0}, PassRates)

NextRelay ==
    \/ \E c \in Conns : Arrive(c, MaxRelayTicks)
    \/ Select(MaxRelayTicks)
    \/ HandleSocket(RelayCmds)
    \/ IntegrateWorld({0})

SpecRelay == InitRelay /\ [][NextRelay]_vars

\* Connections that drive the robots.  LayoutWall has robot 0 at the right
\* wall and every pair farther apart than robot_diameter; LayoutOut has
\* robot 2 start outside the arena.
DriveCmds == WheelFrames \cup PoseFrames
LayoutWall == <<Pt(3, 1, -3), Pt(0, 1, -1)>>
LayoutOut == <<Pt(-1, 1, -5), Pt(-1, 1, 1)>>

InitDrive == InitWith({0}, {LayoutWall, LayoutOut}, {0}, {100})

NextDrive ==
    \/ \E c \in Conns : Arrive(c, MaxTicks)
    \/ Select(MaxTicks)
    \/ HandleSocket(DriveCmds)
    \/ IntegrateWorld({0})

SpecDrive == InitDrive /\ [][NextDrive]_vars

\* Connections that may start a two-phase command and send nothing more.  The
\* server's own steps are taken whenever they can be: loop() runs on its own
\* thread and nothing but a blocking call holds it up.
Known(F) == {f \in F : f.rid \in Robots}
StallCmds ==
    Known(ClockFrames \cup PoseFrames)
        \cup {Silent(f) : f \in Known(SendFrames \cup RecvFrames \cup WheelFrames)}

NextStall ==
    \/ \E c \in Conns : Arrive(c, MaxTicks)
    \/ Select(MaxTicks)
    \/ HandleSocket(StallCmds)
    \/ IntegrateWorld({0})

SpecStall ==
    /\ Init
    /\ [][NextStall]_vars
    /\ WF_vars(Select(MaxTicks))
    /\ WF_vars(HandleSocket(StallCmds))
    /\ WF_vars(IntegrateWorld({0}))

\* The loop with iterations that take wall time and with peers that connect
\* to the listening socket while it runs.
LoopCmds == Known(LedFrames \cup ClockFrames)

InitLoop == InitWith({0}, {LayoutStar}, {0}, {100})

NextLoop ==
    \/ \E c \in Socks : Arrive(c, MaxTicks)
    \/ Select(MaxTicks)
    \/ HandleSocket(LoopCmds)
    \/ IntegrateWorld(WorkTimes)

SpecLoop == InitLoop /\ [][NextLoop]_vars

\* initialize_robots, with or without a visualizer to wait for.
InitAdmit ==
    /\ sim_time_curr = SimTimeStart
    /\ clk = [i \in Robots |-> 0]
    /\ usr_led = [i \in Robots |-> <<0, 0, 0>>]
    /\ pos_x = [i \in Robots |-> 0]
    /\ pos_y = [i \in Robots |-> 0]
    /\ pos_angle = [i \in Robots |-> 0]
    /\ wheel_vel_arr = [i \in Robots |-> <<0, 0>>]
    /\ msg_buffer = [i \in Robots |-> 0]
    /\ heap = [r \in Refs |-> <<>>]
    /\ packet_pass_rate = 100
    /\ inbox = [c \in Socks |-> FALSE]
    /\ pc = "admit"
    /\ rlist = <<>>
    /\ last = [conn |-> -1, frame |-> NoFrame, sent |-> <<>>, crashed |-> FALSE]
    /\ wire = NoWire
    /\ data_arr = NotDecoded
    /\ wall_time = 0
    /\ real_time_now_start = 0
    /\ actual_rtf = [num |-> real_time_factor, den |-> 1]
    /\ \E uv \in BOOLEAN : adm = NotAdmitted(uv)
    /\ kill_now = FALSE

NextAdmit == \E hello \in Hellos : Accept(hello)

SpecAdmit == InitAdmit /\ [][NextAdmit]_vars

\* The loop with a shutdown signal that may come at any moment.  Every robot
\* starts with its clock ahead of sim_time_curr; the server's own steps are
\* taken whenever they can be.
LiveCmds == Known(DelayFrames \cup ClockFrames)

InitLive == InitWith({5}, {LayoutStar}, {0}, {100})

NextLive ==
    \/ \E c \in Conns : Arrive(c, MaxTicks)
    \/ Select(MaxTicks)
    \/ HandleSocket(LiveCmds)
    \/ IntegrateWorld({0})
    \/ Signal
    \/ Exit

SpecLive ==
    /\ InitLive
    /\ [][NextLive]_vars
    /\ WF_vars(Select(MaxTicks))
    /\ WF_vars(HandleSocket(LiveCmds))
    /\ WF_vars(IntegrateWorld({0}))
    /\ WF_vars(Exit)

\* The codec on its own: a client encodes a frame, the server decodes it.
loop_vars ==
    <<sim_time_curr, robot_vars, msg_buffer, heap, packet_pass_rate, inbox, pc, rlist, last>>

SendFrame ==
    /\ wire = NoWire \/ data_arr.decoded
    /\ \E fs \in FieldSeqs : wire' = [fields |-> fs, packet |-> Encode(fs)]
    /\ data_arr' = NotDecoded
    /\ UNCHANGED <<loop_vars, pace_vars, adm, kill_now>>

\* Lines 555-559: a non-empty packet is handed to msg_decode.
Decode ==
    /\ ~data_arr.decoded
    /\ Len(wire.packet) # 0
    /\ data_arr' = msg_decode(wire.packet)
    /\ UNCHANGED <<wire, loop_vars, pace_vars, adm, kill_now>>

InitCodec == InitWith({0}, {LayoutStar}, {0}, {100})

NextCodec == SendFrame \/ Decode

SpecCodec == InitCodec /\ [][NextCodec]_vars

\* ------------------------------------------------------------------ claims
InRlist(c) == \E k \in 1 .. Len(rlist) : rlist[k] = c

\* C1: clock gate.  When the I/O pass comes to a connection whose robot has
\* clk > sim_time_curr, that step changes no clock, indicator, wheel velocity,
\* pose or message buffer and leaves the connection readable (unread); and a
\* connection is only ever read by the step of the pass that has it at the head
\* of rlist with its robot's clk <= sim_time_curr.
ClockGateHolds ==
    [][ /\ (pc = "io" /\ rlist # <<>> /\ clk[fd_to_id_map[Head(rlist)]] > sim_time_curr)
            => (UNCHANGED <<robot_vars, msg_buffer, heap, inbox>> /\ pc' = "io")
        /\ \A c \in Conns :
              (inbox[c] /\ ~inbox'[c])
                 => (pc = "io" /\ rlist # <<>> /\ Head(rlist) = c
                        /\ ~(clk[fd_to_id_map[c]] > sim_time_curr)) ]_vars

\* A gated connection was passed over in a tick after the first, its request
\* still waiting, its clock having been pushed ahead by a delay.
ClockGateWitness ==
    /\ pc = "io"
    /\ sim_time_curr > SimTimeStart
    /\ \E c \in Conns :
          /\ inbox[c] /\ ~InRlist(c)
          /\ clk[fd_to_id_map[c]] > sim_time_curr
          /\ last.conn # -1

\* C2: no step makes any robot's clk smaller.
ClockMonotonic == [][\A i \in Robots : clk'[i] >= clk[i]]_vars

\* A clock ahead of simulated time after a delay and an integration pass, and
\* another one floored to sim_time_curr by that pass.
ClockMonotonicWitness ==
    /\ sim_time_curr > SimTimeStart
    /\ \E i, j \in Robots : clk[i] > sim_time_curr /\ clk[j] = sim_time_curr

\* The step of the I/O pass that reads the connection at the head of rlist.
ReadStep == pc = "io" /\ rlist # <<>> /\ inbox[Head(rlist)] /\ ~inbox'[Head(rlist)]
SendStep(S) == ReadStep /\ last'.frame.op = 4 /\ last'.frame.rid = S /\ ~last'.crashed
RecvStep(R) == ReadStep /\ last'.frame.op = 5 /\ last'.frame.rid = R /\ ~last'.crashed

FirstBytes(P) ==
    [tag |-> P.tag, len |-> IF P.len > MSG_BUFFER_SIZE THEN MSG_BUFFER_SIZE ELSE P.len]
Capped(lst) ==
    IF Len(lst) > msg_buffer_size
    THEN SubSeq(lst, Len(lst) - msg_buffer_size + 1, Len(lst))
    ELSE lst
Near(S, R) ==
    Dist2(pos_x[S], pos_y[S], pos_x[R], pos_y[R]) < comm_range * comm_range
Elems(lst) == {lst[k] : k \in 1 .. Len(lst)}

\* C3: with pass rate 1.0, a send from S appends the payload exactly once to
\* the buffer of every other robot R nearer to S than comm_range.
RelayDelivers ==
    [][\A S \in Robots : (SendStep(S) /\ packet_pass_rate = 100) =>
          \A R \in Robots \ {S} :
              Near(S, R) =>
                 heap'[msg_buffer'[R]] = Capped(Append(Buffer(R), FirstBytes(last'.frame.payload)))]_vars

\* C4: a send from S leaves S's own buffer as it was.
RelayExcludesSender ==
    [][\A S \in Robots : SendStep(S) => heap'[msg_buffer'[S]] = Buffer(S)]_vars

\* C5: a send from S leaves the buffer of every robot at distance >= comm_range
\* from S as it was.
RelayRangeLimit ==
    [][\A S \in Robots : SendStep(S) =>
          \A R \in Robots \ {S} : ~Near(S, R) => heap'[msg_buffer'[R]] = Buffer(R)]_vars

\* C6: no robot's buffer ever holds more than msg_buffer_size entries.
BufferCapacity == \A i \in Robots : Len(Buffer(i)) <= msg_buffer_size

\* C7: every stored payload is at most MSG_BUFFER_SIZE bytes long, and what a
\* send stores in any buffer is the first MSG_BUFFER_SIZE bytes of its payload
\* (the whole payload when it is no longer than that).
PayloadTruncated ==
    [][\A S \in Robots : SendStep(S) =>
          \A R \in Robots :
              LET new == heap'[msg_buffer'[R]]
              IN  /\ \A k \in 1 .. Len(new) : new[k].len <= MSG_BUFFER_SIZE
                  /\ Elems(new) \subseteq Elems(Buffer(R)) \cup {FirstBytes(last'.frame.payload)}
                  /\ new # Buffer(R) => new[Len(new)] = FirstBytes(last'.frame.payload)]_vars

\* A long payload has been sent and sits truncated in a buffer next to a short one.
PayloadTruncatedWitness ==
    /\ last.frame.op = 4 /\ ~last.crashed
    /\ last.frame.payload.len > MSG_BUFFER_SIZE
    /\ \E i \in Robots :
          /\ [tag |-> last.frame.payload.tag, len |-> MSG_BUFFER_SIZE] \in Elems(Buffer(i))
          /\ \E k \in 1 .. Len(Buffer(i)) : Buffer(i)[k].len < MSG_BUFFER_SIZE

\* C8: a receive for R answers with the number of entries of R's buffer and
\* then exactly those entries in order; R's buffer is emptied when the
\* confirmation is "True" and unchanged otherwise; no other buffer changes.
ReceiveDrains ==
    [][\A R \in Robots : RecvStep(R) =>
          LET arr == Buffer(R)
              sent == last'.sent
          IN  /\ Len(sent) = Len(arr) + 2
              /\ sent[1] = <<"size", Len(arr)>>
              /\ \A j \in 1 .. Len(arr) : sent[j + 2] = <<"data", arr[j]>>
              /\ heap'[msg_buffer'[R]] = IF last'.frame.clear = "True" THEN <<>> ELSE arr
              /\ \A Q \in Robots \ {R} : heap'[msg_buffer'[Q]] = Buffer(Q)]_vars

\* A receive has streamed two or more entries and cleared R's buffer, while
\* another robot still holds entries.
ReceiveDrainsWitness ==
    /\ last.frame.op = 5 /\ ~last.crashed
    /\ last.frame.clear = "True"
    /\ Len(last.sent) >= 4
    /\ last.sent[3] # last.sent[4]
    /\ Buffer(last.frame.rid) = <<>>
    /\ \E Q \in Robots : Len(Buffer(Q)) >= 2

\* The step that ends an iteration: sim_time_curr += T_sim and integrate_world.
IntegrateStep == pc = "io" /\ pc' = "select"

\* C9: after an integration pass every two robots are at least robot_diameter
\* apart or exactly as far apart as before the pass.
CollisionResolved ==
    [][IntegrateStep =>
          \A i, j \in Robots :
              i < j =>
                 \/ Dist2(pos_x'[i], pos_y'[i], pos_x'[j], pos_y'[j]) >= robot_diameter * robot_diameter
                 \/ Dist2(pos_x'[i], pos_y'[i], pos_x'[j], pos_y'[j])
                       = Dist2(pos_x[i], pos_y[i], pos_x[j], pos_y[j])]_vars

\* C10: after an integration pass every robot lies inside the arena inset by
\* robot_radius, wherever it was and however fast it drives.
BoundsClipped ==
    [][IntegrateStep =>
          \A i \in Robots :
              /\ -(arena_width \div 2) + robot_radius <= pos_x'[i]
              /\ pos_x'[i] <= (arena_width \div 2) - robot_radius
              /\ -(arena_height \div 2) + robot_radius <= pos_y'[i]
              /\ pos_y'[i] <= (arena_height \div 2) - robot_radius]_vars

\* A robot that started outside the arena has been brought to the left wall,
\* and a driving robot has been stopped at the right wall.
BoundsClippedWitness ==
    /\ sim_time_curr > SimTimeStart
    /\ pos_x[2] = -(arena_width \div 2) + robot_radius
    /\ pos_y[2] = LayoutOut[2][2]
    /\ wheel_vel_arr[2] = <<0, 0>>
    /\ pos_x[1] = (arena_width \div 2) - robot_radius
    /\ wheel_vel_arr[1] # <<0, 0>>

\* C11: after an integration pass every stored heading lies in (-pi, pi]:
\* strictly above -HalfTurn and at most HalfTurn.
HeadingNormalized ==
    [][IntegrateStep =>
          \A i \in Robots : -HalfTurn < pos_angle'[i] /\ pos_angle'[i] <= HalfTurn]_vars

\* C12: whatever fields a frame was built from, msg_decode returns exactly those
\* fields in order, integers as integers and texts as texts, and does not raise.
CodecRoundTrip ==
    data_arr.decoded => (~data_arr.raised /\ data_arr.vals = wire.fields)

\* C13: whatever the connections send or fail to send, the loop keeps ticking:
\* simulated time reaches the end of the MaxTicks iterations that are explored.
TicksKeepOccurring == <>(sim_time_curr >= SimTimeStart + MaxTicks * T_sim)

\* C14: an iteration whose own work takes less wall time than T_real sleeps the
\* remainder and records the target factor; one whose work takes T_real or
\* longer does not sleep and records T_sim / work.
PacingHolds ==
    [][IntegrateStep =>
          LET work == real_time_now_start' - wall_time
              slept == wall_time' - real_time_now_start'
          IN  IF work < T_real
              THEN /\ slept = T_real - work
                   /\ actual_rtf'.num = real_time_factor * actual_rtf'.den
              ELSE /\ slept = 0
                   /\ actual_rtf'.num * work = T_sim * actual_rtf'.den]_vars

\* C16: when the I/O pass comes to the listening socket with a connection
\* waiting on it, the connection is taken within that pass and the loop goes on.
ListenerKeepsAccepting ==
    [][(pc = "io" /\ rlist # <<>> /\ Head(rlist) = server_socket)
          => (pc' = "io" /\ ~inbox'[server_socket])]_vars

\* C15: a command other than set-indicator that names a robot id which was not
\* admitted is answered with an error response, changes no robot's state and
\* leaves the loop running.
UnknownIdRejected ==
    [][(ReadStep /\ last'.frame.rid \notin Robots /\ last'.frame.op # 2)
          => /\ \E k \in 1 .. Len(last'.sent) : last'.sent[k][1] = "error"
             /\ UNCHANGED <<robot_vars, msg_buffer, heap>>
             /\ pc' = "io"]_vars

\* C17: when the admission loop has ended, exactly num_robots robots are
\* admitted, every bound connection has an id in 0 .. num_robots-1, every such
\* id has a connection, and the two maps are inverse to each other.
AdmissionBinding ==
    pc = "admitted" =>
        /\ adm.num_of_robot = num_robots
        /\ \A s \in AdmSockets :
              adm.fd_to_id_map[s] # NoKey =>
                 /\ adm.fd_to_id_map[s] \in Robots
                 /\ adm.id_to_socket_map[adm.fd_to_id_map[s]] = s
        /\ \A i \in Ids :
              IF i \in Robots
              THEN /\ adm.id_to_socket_map[i] # NoKey
                   /\ adm.fd_to_id_map[adm.id_to_socket_map[i]] = i
              ELSE adm.id_to_socket_map[i] = NoKey

FloorToSimTime ==
    [][ /\ IntegrateStep => \A i \in Robots : clk'[i] >= sim_time_curr'
        /\ (ReadStep /\ sim_time_curr > SimTimeStart)
              => clk[fd_to_id_map[Head(rlist)]] = sim_time_curr ]_vars

\* After an integration pass a robot asked for its own clock and was told
\* sim_time_curr, while another robot's clock is ahead.
FloorToSimTimeWitness ==
    /\ pc = "io"
    /\ sim_time_curr > SimTimeStart
    /\ last.conn # -1 /\ ~last.crashed
    /\ last.frame.op = 6
    /\ last.frame.rid = fd_to_id_map[last.conn]
    /\ last.sent = <<Ack, <<"clock", sim_time_curr>>>>
    /\ \E j \in Robots : clk[j] > sim_time_curr

\* The sim_time_curr of the last I/O pass that is explored.
LastPass == SimTimeStart + (MaxTicks - 1) * T_sim

DelayedAgain(c) ==
    /\ last.conn # -1
    /\ last.frame.op = 3
    /\ last.frame.rid = fd_to_id_map[c]
    /\ last.frame.millis > 0

\* C20: a connection with a request waiting whose robot is gated, with a clock
\* that an explored pass will reach, is eventually read, unless a further
\* delay is applied to its clock or the loop is told to stop.
GateRelease ==
    \A c \in Conns :
        (inbox[c] /\ Gated(c) /\ clk[fd_to_id_map[c]] <= LastPass)
            ~> (~inbox[c] \/ DelayedAgain(c) \/ kill_now)

\* In a later tick a connection whose robot started gated has been read.
GateReleaseWitness ==
    /\ pc = "io"
    /\ ~kill_now
    /\ sim_time_curr > SimTimeStart
    /\ last.conn # -1
    /\ ~inbox[last.conn]
    /\ last.frame.rid # fd_to_id_map[last.conn]
    /\ clk[fd_to_id_map[last.conn]] = sim_time_curr

\* C21: in an integration pass robot i keeps its position exactly when the
\* position it proposes is within robot_diameter of another robot's position
\* as it was before the pass; otherwise it takes the proposed position (both
\* clipped to the arena); its heading is the proposed one either way.
CollisionAgainstPreTick ==
    [][IntegrateStep =>
          \A i \in Robots :
              LET pre == [angle |-> pos_angle, x |-> pos_x, y |-> pos_y, clk |-> clk]
                  pos == integrate(pre, i, wheel_vel_arr[i][1], wheel_vel_arr[i][2])
                  rejected == \E j \in Robots \ {i} :
                                 Dist2(pos_x[j], pos_y[j], pos.x, pos.y)
                                    <= robot_diameter * robot_diameter
              IN  /\ pos_angle'[i] = pos.angle
                  /\ pos_x'[i] = ClipX(IF rejected THEN pos_x[i] ELSE pos.x)
                  /\ pos_y'[i] = ClipY(IF rejected THEN pos_y[i] ELSE pos.y)]_vars

\* C22: the step that reads a command from the connection bound to robot A
\* leaves the clock, indicator, wheel velocity and message buffer of every
\* other robot as they were, whatever robot id the frame names.
CommandOwnership ==
    [][ReadStep =>
          \A B \in Robots \ {fd_to_id_map[Head(rlist)]} :
              /\ clk'[B] = clk[B]
              /\ usr_led'[B] = usr_led[B]
              /\ wheel_vel_arr'[B] = wheel_vel_arr[B]
              /\ (last'.frame.op = 5 => heap'[msg_buffer'[B]] = Buffer(B))]_vars
====
